---- MODULE Spec2Model ----
(***************************************************************************)
(* FileSearchServer (server.py): an accept loop that starts one handler    *)
(* thread per connection; each handler reads one frame, validates it,      *)
(* looks the query up in the lines of a dataset file (re-read per query or *)
(* read once and kept in self.data), writes one reply and closes.          *)
(*                                                                         *)
(* Text is a sequence of one-character strings.  The dataset file is the   *)
(* sequence of raw lines that file.readlines() returns (each line with its *)
(* terminator).                                                            *)
(***************************************************************************)
EXTENDS Integers, Sequences, FiniteSets

VARIABLES
    reread_on_query,  \* config: REREAD_ON_QUERY
    ssl_enabled,      \* config: ssl_enabled (self.ssl_context is set)
    file,             \* the file at linuxpath: [status, lines]
    cache,            \* the attribute self.data: [loaded, lines]
    acceptor,         \* the accept loop of start(): "running" or "stopped"
    acceptLog,        \* what the accept loop logged when it stopped
    pc,               \* per connection: position of its handler thread
    data,             \* per connection: the decoded frame (local `data`)
    oversize,         \* per connection: more than BUFFER_SIZE bytes had arrived
    response,         \* per connection: the reply process_request chose
    replies,          \* per connection: the replies written to the socket
    nreads,           \* per connection: number of recv calls made
    fault,            \* per connection: a transport fault occurred
    stale,            \* per connection: the file changed since the accept
    lastChange,       \* the last modification made to the file
    firstLoad,        \* the content stored by the first assignment of self.data
    lib_data,         \* file-search_algorithms: the list `data` passed to a call
    lib_query,        \* file-search_algorithms: the `query` passed to a call
    lib_func,         \* the matching function that was called, "" before the call
    lib_out           \* the outcome of that call: [raised, results]

vars == <<reread_on_query, ssl_enabled, file, cache, acceptor, acceptLog, pc,
          data, oversize, response, replies, nreads, fault, stale,
          lastChange, firstLoad, lib_data, lib_query, lib_func, lib_out>>

connVars == <<pc, data, oversize, response, replies, nreads, fault, stale>>
cfgVars == <<reread_on_query, ssl_enabled>>
histVars == <<lastChange, firstLoad>>
libVars == <<lib_data, lib_query, lib_func, lib_out>>

----------------------------------------------------------------------------
(* Bounds and input sets *)

BUFFER_SIZE == 2

MaxLines == 2

Char == {"a", "A", "\n"}

WhiteSpace == {" ", "\t", "\n", "\r"}

TextUpTo(n) == UNION {[1..k -> Char] : k \in 0..n}

\* what may have arrived on a socket when recv is called: up to one byte
\* more than the buffer holds
Frames == TextUpTo(BUFFER_SIZE + 1)

LineBodies == {<<"a">>, <<"A">>, <<"a", "a">>}

RawLines == {b \o <<"\n">> : b \in LineBodies}

LinesUpTo(n) == UNION {[1..k -> RawLines] : k \in 0..n}

Datasets == LinesUpTo(MaxLines)

FileOk(ls) == [status |-> "ok", lines |-> ls]
FileBad(st) == [status |-> st, lines |-> <<>>]

Files == {FileOk(ls) : ls \in Datasets}
            \cup {FileBad(st) : st \in {"missing", "denied", "garbled"}}

Clients == {"c1"}

\* the concurrent workload: two connections, short frames, short files
ConcClients == {"c1", "c2"}
ConcFrames == {<<"a">>, <<"A", "\n">>, <<"\n">>}
ConcLines == {<<"a", "\n">>}
ConcFiles == {FileOk(<<>>), FileOk(<<<<"a", "\n">>>>), FileBad("missing"),
              FileBad("denied")}

\* the inputs of the matching functions: lines and queries over two letters,
\* and some with a blank, a terminator or the '$' that z_algorithm_search
\* uses as its delimiter
LibMaxLen == 2

LibMaxLines == 2

LibChar == {"a", "b"}

LibText(n) == UNION {[1..k -> LibChar] : k \in 0..n}

LibBodies == LibText(LibMaxLen) \cup {<<" ", "a">>, <<"$">>}

LibLines == {b \o <<"\n">> : b \in LibBodies}

LibDatasets == UNION {[1..k -> LibLines] : k \in 0..LibMaxLines}

LibQueries == LibText(LibMaxLen) \cup {<<"a", "\n">>, <<" ", "a">>, <<"$">>}

\* longer single lines and queries, for the scanning loops
ScanMaxLen == 5

ScanMaxQuery == 3

\* the number of iterations after which a scanning loop is cut off
MaxIterations == 16

ScanDatasets == {<<b \o <<"\n">> >> : b \in LibText(ScanMaxLen)}

ScanQueries == LibText(ScanMaxQuery)

LibAlgorithms == {"naive", "binary", "kmp", "boyer_moore", "rabin_karp",
                  "z_algorithm"}

----------------------------------------------------------------------------
(* Text helpers: str.strip() *)

Min(a, b) == IF a < b THEN a ELSE b

\* variant: recv returns everything that has arrived, whatever its size
TakeAll(s, n) == s

Take(s, n) == SubSeq(s, 1, Min(n, Len(s)))

RECURSIVE LStrip(_)
LStrip(s) ==
    IF s # <<>> /\ Head(s) \in WhiteSpace THEN LStrip(Tail(s)) ELSE s

RECURSIVE RStrip(_)
RStrip(s) ==
    IF s # <<>> /\ s[Len(s)] \in WhiteSpace
    THEN RStrip(SubSeq(s, 1, Len(s) - 1))
    ELSE s

Strip(s) == RStrip(LStrip(s))

----------------------------------------------------------------------------
(* process_query, lines 116-119: the match and the verdict *)

\* a line holds the query somewhere inside it
Contains(line, q) ==
    \E i \in 1..(Len(line) + 1) : \E j \in (i - 1)..Len(line) : SubSeq(line, i, j) = q

\* variant: `query in line.strip()` instead of `query == line.strip()`
RECURSIVE ResultsSubstring(_, _)
ResultsSubstring(lines, query) ==
    IF lines = <<>> THEN <<>>
    ELSE IF Contains(Strip(Head(lines)), query)
         THEN <<Strip(Head(lines))>> \o ResultsSubstring(Tail(lines), query)
         ELSE ResultsSubstring(Tail(lines), query)

RECURSIVE Results(_, _)
Results(lines, query) ==
    IF lines = <<>> THEN <<>>
    ELSE IF query = Strip(Head(lines))
         THEN <<Strip(Head(lines))>> \o Results(Tail(lines), query)
         ELSE Results(Tail(lines), query)

Verdict(lines, query) ==
    IF Results(lines, Strip(query)) # <<>>
    THEN "STRING EXISTS"
    ELSE "STRING NOT FOUND"

\* the outcome of reading the file, lines 108-109 / 112-113 with the
\* handlers of lines 120-125
ReadFails == file.status # "ok"

\* variant: no FileNotFoundError handler, every failure is an internal error
ReadFailureNoNotFound == "ERROR: Internal server error"

\* variant: a bare handler that turns every failure into NOT FOUND
ReadFailureAllNotFound == "STRING NOT FOUND"

ReadFailure ==
    IF file.status = "missing"
    THEN "STRING NOT FOUND"
    ELSE "ERROR: Internal server error"

----------------------------------------------------------------------------
(* file-search_algorithms.py: the matching functions.  A string is a       *)
(* sequence of one-character strings, indexed from 0 as in the source by   *)
(* At and Slice.  A call yields [raised, results]: the name of the         *)
(* exception that ended it ("" when it returned) and the list it returned. *)

\* variant: the two shifts are added instead of the larger being taken
MaxAsSum(a, b) == a + b

Max(a, b) == IF a > b THEN a ELSE b

\* s[i] for 0 <= i < len(s)
At(s, i) == s[i + 1]

\* s[a:b] for 0 <= a
Slice(s, a, b) == SubSeq(s, a + 1, Min(b, Len(s)))

\* ord() on the characters used
Ord(ch) ==
    CASE ch = "a" -> 97
      [] ch = "b" -> 98
      [] ch = "A" -> 65
      [] ch = "$" -> 36
      [] ch = " " -> 32
      [] ch = "\t" -> 9
      [] ch = "\r" -> 13
      [] ch = "\n" -> 10

\* str < str: lexicographic by code point
RECURSIVE StrLess(_, _)
StrLess(s, t) ==
    IF t = <<>> THEN FALSE
    ELSE IF s = <<>> THEN TRUE
    ELSE IF Head(s) = Head(t) THEN StrLess(Tail(s), Tail(t))
    ELSE Ord(Head(s)) < Ord(Head(t))

\* [line.strip() for line in data]
RECURSIVE StripAll(_)
StripAll(lines) ==
    IF lines = <<>> THEN <<>> ELSE <<Strip(Head(lines))>> \o StripAll(Tail(lines))

\* ''.join(data)
RECURSIVE Join(_)
Join(lines) ==
    IF lines = <<>> THEN <<>> ELSE Head(lines) \o Join(Tail(lines))

Returned(results) == [raised |-> "", results |-> results]

Raised(exc, results) == [raised |-> exc, results |-> results]

\* variant: `line == query` on the raw line, without the strip
RECURSIVE NaiveResultsRaw(_, _)
NaiveResultsRaw(lines, query) ==
    IF lines = <<>> THEN <<>>
    ELSE IF Head(lines) = query
         THEN <<Strip(Head(lines))>> \o NaiveResultsRaw(Tail(lines), query)
         ELSE NaiveResultsRaw(Tail(lines), query)

\* line 19: the stripped lines equal to the query as it was passed
RECURSIVE NaiveResults(_, _)
NaiveResults(lines, query) ==
    IF lines = <<>> THEN <<>>
    ELSE IF Strip(Head(lines)) = query
         THEN <<Strip(Head(lines))>> \o NaiveResults(Tail(lines), query)
         ELSE NaiveResults(Tail(lines), query)

naive_search(lines, query) == Returned(NaiveResults(lines, query))

\* sorted(): insertion into an ascending list
RECURSIVE InsertSorted(_, _)
InsertSorted(x, sorted) ==
    IF sorted = <<>> THEN <<x>>
    ELSE IF StrLess(Head(sorted), x)
         THEN <<Head(sorted)>> \o InsertSorted(x, Tail(sorted))
         ELSE <<x>> \o sorted

RECURSIVE Sorted(_)
Sorted(xs) ==
    IF xs = <<>> THEN <<>> ELSE InsertSorted(Head(xs), Sorted(Tail(xs)))

\* a call whose loop is still running after MaxIterations iterations is cut
\* off there; trace is the history of its loop variables, one entry for each
\* iteration begun
Running(trace) == [raised |-> "(running)", results |-> <<>>, trace |-> trace]

Traced(exc, results, trace) == [raised |-> exc, results |-> results, trace |-> trace]

\* lines 34-43: the loop of binary_search over low..high
RECURSIVE BinaryLoop(_, _, _, _, _)
BinaryLoop(sorted_data, query, low, high, trace) ==
    IF low > high THEN Traced("", <<>>, trace)
    ELSE IF Len(trace) >= MaxIterations THEN Running(trace)
    ELSE LET mid == (low + high) \div 2
             tr == Append(trace, <<low, high>>)
         IN  IF At(sorted_data, mid) = query
             THEN Traced("", <<At(sorted_data, mid)>>, tr)
             ELSE IF StrLess(At(sorted_data, mid), query)
                  THEN BinaryLoop(sorted_data, query, mid + 1, high, tr)
                  ELSE BinaryLoop(sorted_data, query, low, mid - 1, tr)

binary_search(lines, query) ==
    LET sorted_data == Sorted(StripAll(lines))
    IN  BinaryLoop(sorted_data, query, 0, Len(sorted_data) - 1, <<>>)

\* list[i] = v
SetAt(s, i, v) == [s EXCEPT ![i + 1] = v]

\* [0] * n
Zeros(n) == [k \in 1..n |-> 0]

\* lines 60-71: the loop of compute_lps
RECURSIVE LpsLoop(_, _, _, _)
LpsLoop(pattern, lps, length, i) ==
    IF ~(i < Len(pattern)) THEN lps
    ELSE IF At(pattern, i) = At(pattern, length)
         THEN LpsLoop(pattern, SetAt(lps, i, length + 1), length + 1, i + 1)
         ELSE IF length # 0
              THEN LpsLoop(pattern, lps, At(lps, length - 1), i)
              ELSE LpsLoop(pattern, SetAt(lps, i, 0), length, i + 1)

\* variant: a table whose entry for a prefix is the length of that prefix, so
\* that j = lps[j - 1] leaves j as it is
ComputeLpsNoFallback(pattern) == [k \in 1..Len(pattern) |-> k]

compute_lps(pattern) == LpsLoop(pattern, Zeros(Len(pattern)), 0, 1)

\* lines 79-90: the scan of one stripped line; query[j] with j = len(query)
\* raises IndexError
RECURSIVE KmpScan(_, _, _, _, _, _, _)
KmpScan(query, lps, line, i, j, results, trace) ==
    IF ~(i < Len(line)) THEN Traced("", results, trace)
    ELSE IF Len(trace) >= MaxIterations THEN Running(trace)
    ELSE IF ~(j < Len(query)) THEN Traced("IndexError", <<>>, Append(trace, <<i, j>>))
    ELSE
      LET hit == At(query, j) = At(line, i)
          i1 == IF hit THEN i + 1 ELSE i
          j1 == IF hit THEN j + 1 ELSE j
          tr == Append(trace, <<i, j>>)
      IN  IF j1 = Len(query)
          THEN KmpScan(query, lps, line, i1, At(lps, j1 - 1),
                       Append(results, line), tr)
          ELSE IF i1 < Len(line) /\ At(query, j1) # At(line, i1)
               THEN IF j1 # 0
                    THEN KmpScan(query, lps, line, i1, At(lps, j1 - 1), results, tr)
                    ELSE KmpScan(query, lps, line, i1 + 1, j1, results, tr)
               ELSE KmpScan(query, lps, line, i1, j1, results, tr)

\* lines 76-91: the loop over the lines; traces holds the trace of the scan
\* of each line
RECURSIVE KmpLines(_, _, _, _, _)
KmpLines(query, lps, lines, results, traces) ==
    IF lines = <<>> THEN Traced("", results, traces)
    ELSE LET out == KmpScan(query, lps, Strip(Head(lines)), 0, 0, results, <<>>)
         IN  IF out.raised # ""
             THEN Traced(out.raised, <<>>, Append(traces, out.trace))
             ELSE KmpLines(query, lps, Tail(lines), out.results,
                           Append(traces, out.trace))

kmp_search(lines, query) ==
    KmpLines(query, compute_lps(query), lines, <<>>, <<>>)

\* s[i] as the interpreter evaluates it: a negative index counts from the end
InRange(s, i) == -Len(s) <= i /\ i < Len(s)

PyAt(s, i) == IF i < 0 THEN s[Len(s) + i + 1] ELSE s[i + 1]

\* the largest element of a non-empty set of integers
MaxOf(S) == CHOOSE x \in S : \A y \in S : y <= x

\* lines 105-109: a dict from each character of pattern[:-1] to the distance
\* of its last occurrence from the end
bad_char_table(pattern) ==
    LET n == Len(pattern)
        keys == {At(pattern, i) : i \in 0..(n - 2)}
    IN  [ch \in keys |-> n - 1 - MaxOf({i \in 0..(n - 2) : At(pattern, i) = ch})]

\* dict.get(key, default)
DictGet(table, key, default) ==
    IF key \in DOMAIN table THEN table[key] ELSE default

\* lines 123-129
is_prefix(pattern, p) ==
    \A i \in p..(Len(pattern) - 1) : At(pattern, i) = At(pattern, i - p)

\* lines 131-140: the loop of suffix_length from i down to 0
RECURSIVE SuffixLoop(_, _, _, _)
SuffixLoop(pattern, i, j, length) ==
    IF i < 0 THEN length
    ELSE IF At(pattern, i) = At(pattern, j)
         THEN SuffixLoop(pattern, i - 1, j - 1, length + 1)
         ELSE length

suffix_length(pattern, p) == SuffixLoop(pattern, p, Len(pattern) - 1, 0)

\* lines 114-117: the first loop of good_suffix_table, i from len-1 down to 0
RECURSIVE GoodSuffixFirst(_, _, _, _)
GoodSuffixFirst(pattern, table, last_prefix, i) ==
    IF i < 0 THEN table
    ELSE LET n == Len(pattern)
             lp == IF is_prefix(pattern, i + 1) THEN i + 1 ELSE last_prefix
         IN  GoodSuffixFirst(pattern, SetAt(table, n - 1 - i, lp - i + n - 1),
                             lp, i - 1)

\* lines 118-120: the second loop, i from 0 to len-2
RECURSIVE GoodSuffixSecond(_, _, _)
GoodSuffixSecond(pattern, table, i) ==
    IF ~(i < Len(pattern) - 1) THEN table
    ELSE LET slen == suffix_length(pattern, i)
         IN  GoodSuffixSecond(pattern,
                              SetAt(table, slen, Len(pattern) - 1 - i + slen),
                              i + 1)

good_suffix_table(pattern) ==
    LET n == Len(pattern)
    IN  GoodSuffixSecond(pattern,
                         GoodSuffixFirst(pattern, Zeros(n), n, n - 1), 0)

\* the outcome of boyer_moore_search carries, besides [raised, results], the
\* lowest index at which line[i] was read (0 when none was negative)
BmOutcome(exc, results, low, trace) ==
    [raised |-> exc, results |-> results, low |-> low, trace |-> trace]

\* lines 149-151: the backward comparison; yields the indices it stops at
\* and the lowest index it read, or IndexError when line[i] is outside the
\* line
RECURSIVE BmCompare(_, _, _, _, _)
BmCompare(line, query, i, j, low) ==
    IF ~(j >= 0) THEN [raised |-> "", i |-> i, j |-> j, low |-> low]
    ELSE IF ~InRange(line, i)
         THEN [raised |-> "IndexError", i |-> i, j |-> j, low |-> low]
    ELSE IF PyAt(line, i) = At(query, j)
         THEN BmCompare(line, query, i - 1, j - 1, Min(low, i))
    ELSE [raised |-> "", i |-> i, j |-> j, low |-> Min(low, i)]

\* lines 147-158: the scan of one stripped line
RECURSIVE BmScan(_, _, _, _, _, _, _, _)
BmScan(query, good_suffix, bad_char, line, i, results, low, trace) ==
    IF ~(i < Len(line)) THEN BmOutcome("", results, low, trace)
    ELSE IF Len(trace) >= MaxIterations THEN BmOutcome("(running)", <<>>, low, trace)
    ELSE
      LET m == Len(query)
          c == BmCompare(line, query, i, m - 1, low)
          tr == Append(trace, i)
      IN  IF c.raised # "" THEN BmOutcome(c.raised, <<>>, c.low, tr)
          ELSE IF c.j < 0
               THEN BmScan(query, good_suffix, bad_char, line, c.i + m + 1,
                           Append(results, line), c.low, tr)
               ELSE BmScan(query, good_suffix, bad_char, line,
                           c.i + Max(At(good_suffix, m - 1 - c.j),
                                     DictGet(bad_char, PyAt(line, c.i), m)),
                           results, c.low, tr)

\* lines 145-159: the loop over the lines; traces holds the trace of the scan
\* of each line
RECURSIVE BmLines(_, _, _, _, _, _, _)
BmLines(query, good_suffix, bad_char, lines, results, low, traces) ==
    IF lines = <<>> THEN BmOutcome("", results, low, traces)
    ELSE LET out == BmScan(query, good_suffix, bad_char, Strip(Head(lines)),
                           Len(query) - 1, results, low, <<>>)
         IN  IF out.raised # ""
             THEN BmOutcome(out.raised, <<>>, out.low, Append(traces, out.trace))
             ELSE BmLines(query, good_suffix, bad_char, Tail(lines),
                          out.results, out.low, Append(traces, out.trace))

boyer_moore_search(lines, query) ==
    BmLines(query, good_suffix_table(query), bad_char_table(query), lines,
            <<>>, 0, <<>>)

\* line 173: q, the modulus of the rolling hash
RK_q == 101

\* line 174: d, the radix of the rolling hash
RK_d == 256

\* pow(base, e) for e >= 0
RECURSIVE Pow(_, _)
Pow(base, e) == IF e = 0 THEN 1 ELSE base * Pow(base, e - 1)

\* lines 186-188: one of the two hashes over the first m characters of s,
\* continued from the value acc
RECURSIVE RkHash(_, _, _, _)
RkHash(acc, s, i, m) ==
    IF ~(i < m) THEN acc
    ELSE RkHash((RK_d * acc + Ord(At(s, i))) % RK_q, s, i + 1, m)

\* line 195: the hash of the next window.  h is pow(d, m - 1) % q; for
\* m = 0 it is the float 2^-8, so that d * (ord * h) is ord exactly
RkRoll(t, out, in, m) ==
    IF m = 0
    THEN (RK_d * t - Ord(out) + Ord(in)) % RK_q
    ELSE (RK_d * (t - Ord(out) * (Pow(RK_d, m - 1) % RK_q)) + Ord(in)) % RK_q

\* lines 190-197: the windows of one line, from window i on
RECURSIVE RkWindows(_, _, _, _, _, _)
RkWindows(line, query, p, t, i, results) ==
    LET n == Len(line)
        m == Len(query)
    IN  IF ~(i < n - m + 1) THEN results
        ELSE LET found == p = t /\ Slice(line, i, i + m) = query
                 res == IF found THEN Append(results, line) ELSE results
             IN  IF i < n - m
                 THEN RkWindows(line, query, p,
                                RkRoll(t, At(line, i), At(line, i + m), m),
                                i + 1, res)
                 ELSE RkWindows(line, query, p, t, i + 1, res)

\* lines 180-197: the loop over the lines; p is set to 0 on line 177, before
\* the loop, and carried from one line to the next
RECURSIVE RkLines(_, _, _, _)
RkLines(query, lines, p, results) ==
    IF lines = <<>> THEN results
    ELSE LET line == Strip(Head(lines))
             m == Len(query)
         IN  IF Len(line) < m
             THEN RkLines(query, Tail(lines), p, results)
             ELSE LET p1 == RkHash(p, query, 0, m)
                      t == RkHash(0, line, 0, m)
                  IN  RkLines(query, Tail(lines), p1,
                              RkWindows(line, query, p1, t, 0, results))

rabin_karp_search(lines, query) == Returned(RkLines(query, lines, 0, <<>>))

\* lines 219-220 and 229-230: while r < len(s) and s[r] == s[r - l]: r += 1
RECURSIVE ZExtend(_, _, _)
ZExtend(s, l, r) ==
    IF r < Len(s) /\ At(s, r) = At(s, r - l) THEN ZExtend(s, l, r + 1) ELSE r

\* lines 216-232: the loop of calculate_z_array
RECURSIVE ZLoop(_, _, _, _, _)
ZLoop(s, z, l, r, i) ==
    IF ~(i < Len(s)) THEN z
    ELSE IF i > r
         THEN LET r1 == ZExtend(s, i, i)
              IN  ZLoop(s, SetAt(z, i, r1 - i), i, r1 - 1, i + 1)
         ELSE LET k == i - l
              IN  IF At(z, k) < r - i + 1
                  THEN ZLoop(s, SetAt(z, i, At(z, k)), l, r, i + 1)
                  ELSE LET r1 == ZExtend(s, i, r)
                       IN  ZLoop(s, SetAt(z, i, r1 - i), i, r1 - 1, i + 1)

calculate_z_array(s) == ZLoop(s, Zeros(Len(s)), 0, 0, 1)

\* lines 239-241: the slices appended for the positions i, i+1, ... whose
\* Z value is the length of the query
RECURSIVE ZCollect(_, _, _, _, _)
ZCollect(concat, z_array, query_length, i, results) ==
    IF ~(i < Len(z_array)) THEN results
    ELSE ZCollect(concat, z_array, query_length, i + 1,
                  IF At(z_array, i) = query_length
                  THEN Append(results, Slice(concat, i - query_length - 1, i - 1))
                  ELSE results)

z_algorithm_search(lines, query) ==
    LET concat == query \o <<"$">> \o Join(lines)
    IN  Returned(ZCollect(concat, calculate_z_array(concat), Len(query),
                          Len(query) + 1, <<>>))

----------------------------------------------------------------------------
(* Initial states *)

InitConn(C) ==
    /\ pc = [c \in C |-> "idle"]
    /\ data = [c \in C |-> <<>>]
    /\ oversize = [c \in C |-> FALSE]
    /\ response = [c \in C |-> ""]
    /\ replies = [c \in C |-> <<>>]
    /\ nreads = [c \in C |-> 0]
    /\ fault = [c \in C |-> FALSE]
    /\ stale = [c \in C |-> FALSE]

InitServer(F) ==
    /\ reread_on_query \in BOOLEAN
    /\ ssl_enabled \in BOOLEAN
    /\ file \in F
    /\ cache = [loaded |-> FALSE, lines |-> <<>>]
    /\ acceptor = "running"
    /\ acceptLog = "none"
    /\ lastChange = [op |-> "none", line |-> <<>>]
    /\ firstLoad = [loaded |-> FALSE, lines |-> <<>>]

\* no matching function of file-search_algorithms.py is being called
LibIdle ==
    /\ lib_data = <<>>
    /\ lib_query = <<>>
    /\ lib_func = ""
    /\ lib_out = Returned(<<>>)

Init == InitServer(Files) /\ InitConn(Clients) /\ LibIdle

InitConc == InitServer(ConcFiles) /\ InitConn(ConcClients) /\ LibIdle

\* a dataset and a query are at hand, no function has been called on them,
\* and no server is serving
InitLib ==
    /\ InitServer({FileBad("missing")})
    /\ reread_on_query /\ ~ssl_enabled
    /\ InitConn(Clients)
    /\ lib_data \in LibDatasets
    /\ lib_query \in LibQueries
    /\ lib_func = ""
    /\ lib_out = Returned(<<>>)

\* as InitLib, with the longer single lines and queries among the inputs
InitScan ==
    /\ InitServer({FileBad("missing")})
    /\ reread_on_query /\ ~ssl_enabled
    /\ InitConn(Clients)
    /\ lib_data \in LibDatasets \cup ScanDatasets
    /\ lib_query \in LibQueries \cup ScanQueries
    /\ lib_func = ""
    /\ lib_out = Returned(<<>>)

----------------------------------------------------------------------------
(* start(), lines 130-146: the accept loop *)

\* variant: handle_client is called in the accept loop itself, without a
\* thread, so accept() is reached again only after the handler returned
AcceptInline(c) ==
    /\ acceptor = "running"
    /\ \A d \in DOMAIN pc : pc[d] = "idle"
    /\ pc' = [pc EXCEPT ![c] = "handle"]
    /\ UNCHANGED <<cfgVars, libVars, file, cache, acceptor, acceptLog, data, oversize,
                   response, replies, nreads, fault, stale, histVars>>

\* accept() returns a connection and a handler thread is started for it
Accept(c) ==
    /\ acceptor = "running"
    /\ pc[c] = "idle"
    /\ pc' = [pc EXCEPT ![c] = "handle"]
    /\ UNCHANGED <<cfgVars, libVars, file, cache, acceptor, acceptLog, data, oversize,
                   response, replies, nreads, fault, stale, histVars>>

\* accept() or Thread.start() raises: line 144 logs and line 146 breaks.
\* kind "connection": a fault of the one connection being accepted;
\* kind "listener": the listening socket itself is closed or invalid.
AcceptFails(kind) ==
    /\ acceptor = "running"
    /\ acceptor' = "stopped"
    /\ acceptLog' = kind
    /\ UNCHANGED <<cfgVars, libVars, file, cache, connVars, histVars>>

----------------------------------------------------------------------------
(* handle_client, lines 59-74 *)

\* variant: the SSLError handler also tells the peer, in plaintext, that the
\* handshake failed
HandleClientRepliesSslError(c, handshakeOk) ==
    /\ pc[c] = "handle"
    /\ IF ssl_enabled /\ ~handshakeOk
       THEN /\ pc' = [pc EXCEPT ![c] = "close"]
            /\ fault' = [fault EXCEPT ![c] = TRUE]
            /\ replies' = [replies EXCEPT ![c] = Append(@, "ERROR: SSL error")]
       ELSE /\ pc' = [pc EXCEPT ![c] = "request"]
            /\ UNCHANGED <<fault, replies>>
    /\ UNCHANGED <<cfgVars, libVars, file, cache, acceptor, acceptLog, data, oversize,
                   response, nreads, stale, histVars>>

\* lines 61-68: the TLS handshake when an SSL context is set
HandleClient(c, handshakeOk) ==
    /\ pc[c] = "handle"
    /\ IF ssl_enabled /\ ~handshakeOk
       THEN /\ pc' = [pc EXCEPT ![c] = "close"]       \* lines 69-70
            /\ fault' = [fault EXCEPT ![c] = TRUE]
       ELSE /\ pc' = [pc EXCEPT ![c] = "request"]
            /\ UNCHANGED fault
    /\ UNCHANGED <<cfgVars, libVars, file, cache, acceptor, acceptLog, data, oversize,
                   response, replies, nreads, stale, histVars>>

\* lines 73-74: finally client_socket.close(); the thread and its locals end
Close(c) ==
    /\ pc[c] = "close"
    /\ pc' = [pc EXCEPT ![c] = "idle"]
    /\ data' = [data EXCEPT ![c] = <<>>]
    /\ oversize' = [oversize EXCEPT ![c] = FALSE]
    /\ response' = [response EXCEPT ![c] = ""]
    /\ replies' = [replies EXCEPT ![c] = <<>>]
    /\ nreads' = [nreads EXCEPT ![c] = 0]
    /\ fault' = [fault EXCEPT ![c] = FALSE]
    /\ stale' = [stale EXCEPT ![c] = FALSE]
    /\ UNCHANGED <<cfgVars, libVars, file, cache, acceptor, acceptLog, histVars>>

----------------------------------------------------------------------------
(* process_request, lines 76-97 *)

\* variant: `if not data` without the strip
ValidateNoStrip(d) ==
    IF Len(d) > BUFFER_SIZE THEN "ERROR: Payload too large"
    ELSE IF d = <<>> THEN "ERROR: Empty query"
    ELSE ""

\* variant: `>=` instead of `>` on line 83
ValidateOffByOne(d) ==
    IF Len(d) >= BUFFER_SIZE THEN "ERROR: Payload too large"
    ELSE IF Strip(d) = <<>> THEN "ERROR: Empty query"
    ELSE ""

\* lines 83-89: the reply chosen by validation, "" when the frame passes
Validate(d) ==
    IF Len(d) > BUFFER_SIZE THEN "ERROR: Payload too large"
    ELSE IF Strip(d) = <<>> THEN "ERROR: Empty query"
    ELSE ""

\* variant: process_query, and with it the first load of self.data, runs
\* before the frame is validated
RecvLoadsBeforeValidation(c, arrived) ==
    /\ pc[c] = "request"
    /\ nreads' = [nreads EXCEPT ![c] = @ + 1]
    /\ data' = [data EXCEPT ![c] = Take(arrived, BUFFER_SIZE)]
    /\ oversize' = [oversize EXCEPT ![c] = Len(arrived) > BUFFER_SIZE]
    /\ response' = [response EXCEPT ![c] = Validate(data'[c])]
    /\ pc' = [pc EXCEPT ![c] = IF Validate(data'[c]) = "" THEN "query" ELSE "send"]
    /\ IF ~reread_on_query /\ ~cache.loaded /\ ~ReadFails
       THEN /\ cache' = [loaded |-> TRUE, lines |-> file.lines]
            /\ firstLoad' = [loaded |-> TRUE, lines |-> file.lines]
       ELSE UNCHANGED <<cache, firstLoad>>
    /\ UNCHANGED <<cfgVars, libVars, file, acceptor, acceptLog, replies, fault,
                   stale, lastChange>>

\* lines 80-91: one recv of at most BUFFER_SIZE bytes, then validation
Recv(c, arrived) ==
    /\ pc[c] = "request"
    /\ nreads' = [nreads EXCEPT ![c] = @ + 1]
    /\ data' = [data EXCEPT ![c] = Take(arrived, BUFFER_SIZE)]
    /\ oversize' = [oversize EXCEPT ![c] = Len(arrived) > BUFFER_SIZE]
    /\ response' = [response EXCEPT ![c] = Validate(data'[c])]
    /\ pc' = [pc EXCEPT ![c] = IF Validate(data'[c]) = "" THEN "query" ELSE "send"]
    /\ UNCHANGED <<cfgVars, libVars, file, cache, acceptor, acceptLog, replies, fault,
                   stale, histVars>>

\* variant: the handler runs inside the accept loop instead of a thread of
\* its own, so an error it does not handle ends the loop (lines 144-146)
RecvFailsInAcceptLoop(c) ==
    /\ pc[c] = "request"
    /\ nreads' = [nreads EXCEPT ![c] = @ + 1]
    /\ fault' = [fault EXCEPT ![c] = TRUE]
    /\ pc' = [pc EXCEPT ![c] = "close"]
    /\ acceptor' = "stopped"
    /\ acceptLog' = "connection"
    /\ UNCHANGED <<cfgVars, libVars, file, cache, data, oversize, response, replies,
                   stale, histVars>>

\* line 80 raises (connection reset, undecodable bytes): to line 95
RecvFails(c) ==
    /\ pc[c] = "request"
    /\ nreads' = [nreads EXCEPT ![c] = @ + 1]
    /\ fault' = [fault EXCEPT ![c] = TRUE]
    /\ pc' = [pc EXCEPT ![c] = "except"]
    /\ UNCHANGED <<cfgVars, libVars, file, cache, acceptor, acceptLog, data, oversize,
                   response, replies, stale, histVars>>

\* variant: the `return` after a validation reply is missing, so the handler
\* falls through to process_query and replies again
SendNoReturn(c, ok) ==
    /\ pc[c] = "send"
    /\ IF ok
       THEN /\ replies' = [replies EXCEPT ![c] = Append(@, response[c])]
            /\ pc' = [pc EXCEPT ![c] =
                   IF response[c] = "ERROR: Empty query" /\ Len(replies[c]) = 0
                   THEN "query" ELSE "close"]
            /\ UNCHANGED fault
       ELSE /\ fault' = [fault EXCEPT ![c] = TRUE]
            /\ pc' = [pc EXCEPT ![c] = "except"]
            /\ UNCHANGED replies
    /\ UNCHANGED <<cfgVars, libVars, file, cache, acceptor, acceptLog, data, oversize,
                   response, nreads, stale, histVars>>

\* lines 84, 88, 92: sendall of the chosen reply
Send(c, ok) ==
    /\ pc[c] = "send"
    /\ IF ok
       THEN /\ replies' = [replies EXCEPT ![c] = Append(@, response[c])]
            /\ pc' = [pc EXCEPT ![c] = "close"]
            /\ UNCHANGED fault
       ELSE /\ fault' = [fault EXCEPT ![c] = TRUE]
            /\ pc' = [pc EXCEPT ![c] = "except"]
            /\ UNCHANGED replies
    /\ UNCHANGED <<cfgVars, libVars, file, cache, acceptor, acceptLog, data, oversize,
                   response, nreads, stale, histVars>>

\* lines 95-97: the handler of process_request sends the internal error;
\* when that sendall raises too, handle_client logs it (lines 71-72)
Except(c, ok) ==
    /\ pc[c] = "except"
    /\ IF ok
       THEN replies' = [replies EXCEPT ![c] = Append(@, "ERROR: Internal server error")]
       ELSE UNCHANGED replies
    /\ pc' = [pc EXCEPT ![c] = "close"]
    /\ UNCHANGED <<cfgVars, libVars, file, cache, acceptor, acceptLog, data, oversize,
                   response, nreads, fault, stale, histVars>>

----------------------------------------------------------------------------
(* process_query, lines 99-125 *)

\* variant: the query is kept in one attribute shared by all handlers, so a
\* handler may match with the frame another connection received
QueryOfShared(c) ==
    IF \E d \in DOMAIN data : d # c /\ pc[d] # "idle"
    THEN data[CHOOSE d \in DOMAIN data : d # c /\ pc[d] # "idle"]
    ELSE data[c]

\* the query a handler matches with (the parameter `query`, line 99)
QueryOf(c) == data[c]

\* variant: the reread flag is ignored and self.data is always used
QueryIgnoresReread(c) ==
    /\ pc[c] = "query"
    /\ pc' = [pc EXCEPT ![c] = IF cache.loaded THEN "hit" ELSE "load"]
    /\ UNCHANGED <<cfgVars, libVars, file, cache, acceptor, acceptLog, data, oversize,
                   response, replies, nreads, fault, stale, histVars>>

\* lines 107-111: Transient mode reads the file and matches; Cached mode
\* tests hasattr(self, "data")
Query(c) ==
    /\ pc[c] = "query"
    /\ IF reread_on_query
       THEN /\ response' = [response EXCEPT ![c] =
                   IF ReadFails THEN ReadFailure
                   ELSE Verdict(file.lines, QueryOf(c))]
            /\ pc' = [pc EXCEPT ![c] = "send"]
       ELSE /\ pc' = [pc EXCEPT ![c] = IF cache.loaded THEN "hit" ELSE "load"]
            /\ UNCHANGED response
    /\ UNCHANGED <<cfgVars, libVars, file, cache, acceptor, acceptLog, data, oversize,
                   replies, nreads, fault, stale, histVars>>

\* variant: a handler of the failed read stores an empty dataset in self.data
LoadCachesFailure(c) ==
    /\ pc[c] = "load"
    /\ IF ReadFails
       THEN /\ response' = [response EXCEPT ![c] = ReadFailure]
            /\ pc' = [pc EXCEPT ![c] = "send"]
            /\ cache' = [loaded |-> TRUE, lines |-> <<>>]
            /\ UNCHANGED firstLoad
       ELSE /\ cache' = [loaded |-> TRUE, lines |-> file.lines]
            /\ firstLoad' = IF firstLoad.loaded THEN firstLoad ELSE cache'
            /\ pc' = [pc EXCEPT ![c] = "stored"]
            /\ UNCHANGED response
    /\ UNCHANGED <<cfgVars, libVars, file, acceptor, acceptLog, data, oversize, replies,
                   nreads, fault, stale, lastChange>>

\* lines 112-113: self.data = file.readlines()
Load(c) ==
    /\ pc[c] = "load"
    /\ IF ReadFails
       THEN /\ response' = [response EXCEPT ![c] = ReadFailure]
            /\ pc' = [pc EXCEPT ![c] = "send"]
            /\ UNCHANGED <<cache, firstLoad>>
       ELSE /\ cache' = [loaded |-> TRUE, lines |-> file.lines]
            /\ firstLoad' = IF firstLoad.loaded THEN firstLoad ELSE cache'
            /\ pc' = [pc EXCEPT ![c] = "stored"]
            /\ UNCHANGED response
    /\ UNCHANGED <<cfgVars, libVars, file, acceptor, acceptLog, data, oversize, replies,
                   nreads, fault, stale, lastChange>>

\* lines 114-119: data = self.data, then the match; the handler comes here
\* from line 111 when self.data exists ("hit") or from line 113 ("stored")
Use(c) ==
    /\ pc[c] \in {"hit", "stored"}
    /\ response' = [response EXCEPT ![c] = Verdict(cache.lines, QueryOf(c))]
    /\ pc' = [pc EXCEPT ![c] = "send"]
    /\ UNCHANGED <<cfgVars, libVars, file, cache, acceptor, acceptLog, data, oversize,
                   replies, nreads, fault, stale, histVars>>

----------------------------------------------------------------------------
(* The environment: the dataset file is modified *)

InFlight(c) == pc[c] # "idle"

Changed(op, line) ==
    /\ lastChange' = [op |-> op, line |-> line]
    /\ stale' = [c \in DOMAIN pc |-> stale[c] \/ InFlight(c)]
    /\ UNCHANGED <<cfgVars, libVars, cache, acceptor, acceptLog, pc, data, oversize,
                   response, replies, nreads, fault, firstLoad>>

AppendLine(line) ==
    /\ file.status = "ok"
    /\ Len(file.lines) < MaxLines
    /\ file' = FileOk(Append(file.lines, line))
    /\ Changed("add", line)

RemoveLine(i) ==
    /\ file.status = "ok"
    /\ i \in 1..Len(file.lines)
    /\ file' = FileOk(SubSeq(file.lines, 1, i - 1)
                        \o SubSeq(file.lines, i + 1, Len(file.lines)))
    /\ Changed("remove", file.lines[i])

DeleteFile ==
    /\ file.status # "missing"
    /\ file' = FileBad("missing")
    /\ Changed("delete", <<>>)

CreateFile(f) ==
    /\ file.status = "missing"
    /\ file' = f
    /\ Changed("create", <<>>)

----------------------------------------------------------------------------
(* Specifications *)

\* one client at a time, every frame and every dataset, the file unchanged
Next ==
    \/ \E c \in Clients : Accept(c)
    \/ \E kind \in {"connection", "listener"} : AcceptFails(kind)
    \/ \E c \in Clients, ok \in BOOLEAN : HandleClient(c, ok)
    \/ \E c \in Clients, arrived \in Frames : Recv(c, arrived)
    \/ \E c \in Clients : RecvFails(c)
    \/ \E c \in Clients : Query(c)
    \/ \E c \in Clients : Load(c)
    \/ \E c \in Clients : Use(c)
    \/ \E c \in Clients, ok \in BOOLEAN : Send(c, ok)
    \/ \E c \in Clients, ok \in BOOLEAN : Except(c, ok)
    \/ \E c \in Clients : Close(c)

Spec == Init /\ [][Next]_vars

\* two concurrent connections while the file is being modified; the accept
\* loop stops when the listening socket fails
NextConc ==
    \/ \E c \in ConcClients : Accept(c)
    \/ AcceptFails("listener")
    \/ \E c \in ConcClients, ok \in BOOLEAN : HandleClient(c, ok)
    \/ \E c \in ConcClients, arrived \in ConcFrames : Recv(c, arrived)
    \/ \E c \in ConcClients : RecvFails(c)
    \/ \E c \in ConcClients : Query(c)
    \/ \E c \in ConcClients : Load(c)
    \/ \E c \in ConcClients : Use(c)
    \/ \E c \in ConcClients, ok \in BOOLEAN : Send(c, ok)
    \/ \E c \in ConcClients, ok \in BOOLEAN : Except(c, ok)
    \/ \E c \in ConcClients : Close(c)
    \/ \E line \in ConcLines :
          FileOk(Append(file.lines, line)) \in ConcFiles /\ AppendLine(line)
    \/ \E i \in 1..MaxLines : RemoveLine(i)
    \/ DeleteFile
    \/ \E f \in ConcFiles : CreateFile(f)

SpecConc == InitConc /\ [][NextConc]_vars

----------------------------------------------------------------------------
(* The matching functions applied to a dataset and a query *)

\* algorithm_func(data, query), file-search_algorithms.py line 288
Apply(f, lines, query) ==
    CASE f = "naive" -> naive_search(lines, query)
      [] f = "binary" -> binary_search(lines, query)
      [] f = "kmp" -> kmp_search(lines, query)
      [] f = "boyer_moore" -> boyer_moore_search(lines, query)
      [] f = "rabin_karp" -> rabin_karp_search(lines, query)
      [] f = "z_algorithm" -> z_algorithm_search(lines, query)

CallAlgorithm(f) ==
    /\ lib_func = ""
    /\ lib_func' = f
    /\ lib_out' = Apply(f, lib_data, lib_query)
    /\ UNCHANGED <<cfgVars, file, cache, acceptor, acceptLog, connVars,
                   histVars, lib_data, lib_query>>

\* server.py lines 116-117 applied to the same inputs: the query is
\* stripped, then compared with each stripped line
CallProcessQuery ==
    /\ lib_func = ""
    /\ lib_func' = "process_query"
    /\ lib_out' = Returned(Results(lib_data, Strip(lib_query)))
    /\ UNCHANGED <<cfgVars, file, cache, acceptor, acceptLog, connVars,
                   histVars, lib_data, lib_query>>

NextLib ==
    \/ \E f \in LibAlgorithms : CallAlgorithm(f)
    \/ CallProcessQuery

SpecLib == InitLib /\ [][NextLib]_vars

SpecScan == InitScan /\ [][NextLib]_vars

----------------------------------------------------------------------------
(* Properties *)

ConnIds == DOMAIN pc

\* the frame passes validation: non-empty after trimming, within the limit
PassesValidation(d) == Strip(d) # <<>> /\ Len(d) <= BUFFER_SIZE

\* some line of the dataset, trimmed, equals the trimmed query
LineEquals(lines, q) == \E i \in 1..Len(lines) : Strip(lines[i]) = Strip(q)

\* the query occurs inside some trimmed line that is longer than it
InsideLongerLine(lines, q) ==
    \E i \in 1..Len(lines) :
        /\ Len(Strip(lines[i])) > Len(Strip(q))
        /\ Contains(Strip(lines[i]), Strip(q))

\* process_request has chosen the reply of connection c
Chose(c) == response[c] # ""

\* a reply written on a connection without transport fault is the chosen one
Delivers(c) == (replies[c] # <<>> /\ ~fault[c]) => replies[c] = <<response[c]>>

\* what one query, run alone against the file as it is now, is answered
AloneReply(d) ==
    IF Len(d) > BUFFER_SIZE THEN "ERROR: Payload too large"
    ELSE IF Strip(d) = <<>> THEN "ERROR: Empty query"
    ELSE IF file.status = "missing" THEN "STRING NOT FOUND"
    ELSE IF file.status # "ok" THEN "ERROR: Internal server error"
    ELSE IF LineEquals(file.lines, d) THEN "STRING EXISTS"
    ELSE "STRING NOT FOUND"

\* C1: for a query that passes validation and a readable dataset, the reply
\* is STRING EXISTS exactly when some dataset line, trimmed, equals the
\* trimmed query, and STRING NOT FOUND otherwise (so also for a query that is
\* only a proper substring of a line or differs from it in letter case).
C1_ExactLineMatch ==
    \A c \in ConnIds :
        (Chose(c) /\ PassesValidation(data[c]) /\ file.status = "ok") =>
            /\ response[c] = IF LineEquals(file.lines, data[c])
                             THEN "STRING EXISTS" ELSE "STRING NOT FOUND"
            /\ Delivers(c)

\* a query that is only a proper substring of a line was told NOT FOUND
C1_Witness ==
    \E c \in ConnIds :
        /\ file.status = "ok"
        /\ PassesValidation(data[c])
        /\ InsideLongerLine(file.lines, data[c])
        /\ replies[c] = <<"STRING NOT FOUND">>

\* C2: a frame longer than the maximum frame size is answered with
\* ERROR: Payload too large.
C2_PayloadTooLarge ==
    \A c \in ConnIds :
        (oversize[c] /\ Chose(c)) => response[c] = "ERROR: Payload too large"

\* C3: a frame that is empty or holds only whitespace / line terminators is
\* answered with ERROR: Empty query, whatever the dataset and the reread mode.
C3_EmptyQuery ==
    \A c \in ConnIds :
        (nreads[c] = 1 /\ Strip(data[c]) = <<>>) =>
            /\ pc[c] \notin {"query", "load", "hit", "stored"}
            /\ Chose(c) => response[c] = "ERROR: Empty query"
            /\ ~fault[c] =>
                  /\ response[c] = "ERROR: Empty query"
                  /\ pc[c] = "close" => replies[c] = <<"ERROR: Empty query">>

\* a whitespace-only frame got the reply, in Cached mode with a dataset
C3_Witness ==
    \E c \in ConnIds :
        /\ data[c] # <<>>
        /\ Strip(data[c]) = <<>>
        /\ ~reread_on_query
        /\ file.status = "ok" /\ file.lines # <<>>
        /\ replies[c] = <<"ERROR: Empty query">>

C5_IoFaultIsInternalError ==
    \A c \in ConnIds :
        (file.status \in {"denied", "garbled"} /\ ~stale[c] /\ Chose(c)
            /\ PassesValidation(data[c])) =>
            /\ response[c] = "ERROR: Internal server error"
            /\ replies[c] # <<>> => replies[c] = <<"ERROR: Internal server error">>

\* a query against an undecodable file got the internal error reply
C5_Witness ==
    \E c \in ConnIds :
        /\ file.status = "garbled"
        /\ ~fault[c]
        /\ PassesValidation(data[c])
        /\ replies[c] = <<"ERROR: Internal server error">>

\* C6: a handler makes at most one recv and writes at most one reply; once a
\* reply is written only the close remains; and a handler that finished
\* without transport fault made exactly one recv and wrote exactly one reply.
C6_OneRequestOneReply ==
    \A c \in ConnIds :
        /\ nreads[c] <= 1
        /\ Len(replies[c]) <= 1
        /\ replies[c] # <<>> => pc[c] = "close"
        /\ (pc[c] = "close" /\ ~fault[c]) => (nreads[c] = 1 /\ Len(replies[c]) = 1)

\* a handler without fault is about to close after one recv and one reply
C6_Witness ==
    \E c \in ConnIds :
        /\ pc[c] = "close" /\ ~fault[c]
        /\ nreads[c] = 1 /\ Len(replies[c]) = 1

\* C7: with the dataset unchanged, every connection of a set of concurrently
\* handled connections gets the reply its own query would get when run alone.
C7_NoCrossTalk ==
    \A c \in ConnIds :
        (lastChange.op = "none" /\ Chose(c)) =>
            /\ response[c] = AloneReply(data[c])
            /\ Delivers(c)

\* two handlers are in flight in Cached mode with different verdicts
C7_Witness ==
    /\ lastChange.op = "none"
    /\ ~reread_on_query
    /\ \E c \in ConnIds, d \in ConnIds :
          /\ c # d
          /\ pc[c] = "send" /\ response[c] = "STRING EXISTS"
          /\ pc[d] = "send" /\ response[d] = "STRING NOT FOUND"

\* C8: in Transient mode a query that starts after the file was modified is
\* answered against the modified content: a line added before the query is
\* reported STRING EXISTS, a line removed before it STRING NOT FOUND.
C8_TransientSeesModification ==
    \A c \in ConnIds :
        (reread_on_query /\ lastChange.op # "none" /\ ~stale[c] /\ Chose(c)) =>
            /\ response[c] = AloneReply(data[c])
            /\ (lastChange.op = "add" /\ PassesValidation(data[c])
                  /\ Strip(data[c]) = Strip(lastChange.line)) =>
                  response[c] = "STRING EXISTS"
            /\ (lastChange.op = "remove" /\ PassesValidation(data[c])
                  /\ Strip(data[c]) = Strip(lastChange.line)
                  /\ ~LineEquals(file.lines, data[c])) =>
                  response[c] = "STRING NOT FOUND"
            /\ Delivers(c)

\* a query for the line that was just added was told STRING EXISTS
C8_Witness ==
    \E c \in ConnIds :
        /\ reread_on_query /\ ~stale[c]
        /\ lastChange.op = "add"
        /\ Strip(data[c]) = Strip(lastChange.line)
        /\ replies[c] = <<"STRING EXISTS">>

\* C9: in Cached mode a query that finds the dataset already loaded is
\* answered against the content stored by the first load.
C9_CachedSeesFirstLoad ==
    [][\A c \in ConnIds :
          (~reread_on_query /\ pc[c] = "hit" /\ pc'[c] = "send") =>
              response'[c] = IF LineEquals(firstLoad.lines, data[c])
                             THEN "STRING EXISTS" ELSE "STRING NOT FOUND"]_vars

\* C10: the accept loop stops only when the listening endpoint itself is
\* invalid; a fault of a single connection leaves it running.
C10_AcceptLoopSurvives ==
    acceptor = "stopped" => acceptLog = "listener"

\* the handler of connection c takes a step
Steps(c) == pc'[c] # pc[c] /\ pc[c] # "idle"

\* a step of the handler of c in which a fault shows: a transport fault
\* (failed handshake, failed recv, failed sendall of the reply), a failed
\* sendall of the internal-error reply, or a dataset read that fails
FaultStep(c) ==
    /\ Steps(c)
    /\ \/ fault'[c] /\ ~fault[c]
       \/ pc[c] = "except" /\ replies'[c] = replies[c]
       \/ pc[c] \in {"query", "load"} /\ ReadFails /\ response'[c] = ReadFailure

\* connection d is exactly as it was
Untouched(d) ==
    /\ pc'[d] = pc[d] /\ data'[d] = data[d] /\ response'[d] = response[d]
    /\ replies'[d] = replies[d] /\ fault'[d] = fault[d]

\* C11: a fault inside the handler of one connection (failed dataset read,
\* failed recv, failed reply write) neither stops the accept loop nor touches
\* any other connection or the cached dataset, and a connection without a
\* fault of its own is answered what its frame is answered alone.
C11_FaultConfined ==
    /\ [][\A c \in ConnIds :
            FaultStep(c) =>
                /\ acceptor' = acceptor /\ acceptLog' = acceptLog
                /\ cache' = cache /\ file' = file
                /\ \A d \in ConnIds \ {c} : Untouched(d)]_vars
    /\ [](\A c \in ConnIds : \A d \in ConnIds \ {c} :
            (fault[c] /\ ~fault[d] /\ ~stale[d] /\ Chose(d) /\ reread_on_query) =>
                response[d] = AloneReply(data[d]) /\ Delivers(d))

\* one connection was reset while another, accepted and served meanwhile,
\* got its STRING EXISTS reply, and the accept loop is still running
C11_Witness ==
    \E c \in ConnIds : \E d \in ConnIds \ {c} :
        /\ fault[c] /\ pc[c] = "close" /\ nreads[c] > 0
        /\ ~fault[d] /\ replies[d] = <<"STRING EXISTS">>
        /\ acceptor = "running"

\* the handler of connection c is somewhere a thread can block: in the
\* handshake, the frame read, a dataset read or the reply write
Blocked(c) == pc[c] \in {"handle", "request", "query", "load", "send"}

\* the next step of the handler of c, whatever the peer sends
HandlerStep(c) ==
    \/ HandleClient(c, TRUE)
    \/ \E arrived \in ConcFrames : Recv(c, arrived)
    \/ Query(c) \/ Load(c) \/ Use(c)
    \/ Send(c, TRUE)
    \/ Except(c, TRUE)
    \/ Close(c)

\* C12: the accept loop never waits for a handler: while the accept loop runs,
\* a new connection can be accepted whatever the handlers of the other
\* connections are doing, and the handler of an accepted connection can take
\* its next step without any other handler moving first.
C12_AcceptorNeverWaits ==
    \A c \in ConnIds :
        /\ (acceptor = "running" /\ pc[c] = "idle") => ENABLED Accept(c)
        /\ pc[c] # "idle" => ENABLED HandlerStep(c)

\* a connection has its reply while the handler of another connection is
\* still blocked in its handshake: one of the two was accepted, and the
\* first was answered, while the other handler was unfinished
C12_Witness ==
    \E c \in ConnIds : \E d \in ConnIds \ {c} :
        /\ Blocked(d) /\ pc[d] = "handle"
        /\ pc[c] = "close" /\ ~fault[c] /\ Len(replies[c]) = 1

\* the handler of c is closing without ever having called recv: its
\* handshake failed (lines 69-70, then the finally of line 73)
HandshakeFailed(c) == pc[c] = "close" /\ nreads[c] = 0

C14_PlaintextGetsSslError ==
    \A c \in ConnIds :
        (ssl_enabled /\ HandshakeFailed(c)) => replies[c] = <<"ERROR: SSL error">>

\* C15: a frame of exactly BUFFER_SIZE bytes is not answered Payload too
\* large; when it is not blank and the dataset is readable, the reply is
\* STRING EXISTS or STRING NOT FOUND according to whether a dataset line
\* equals it.
C15_FullFrameAccepted ==
    \A c \in ConnIds :
        (Chose(c) /\ Len(data[c]) = BUFFER_SIZE /\ ~oversize[c]) =>
            /\ response[c] # "ERROR: Payload too large"
            /\ (Strip(data[c]) # <<>> /\ file.status = "ok") =>
                  /\ response[c] = IF LineEquals(file.lines, data[c])
                                   THEN "STRING EXISTS" ELSE "STRING NOT FOUND"
                  /\ Delivers(c)

\* a frame that fills the buffer exactly was found in the dataset
C15_Witness ==
    \E c \in ConnIds :
        /\ Len(data[c]) = BUFFER_SIZE /\ ~oversize[c]
        /\ Strip(data[c]) # <<>>
        /\ replies[c] = <<"STRING EXISTS">>

\* the replies that validation chooses without calling process_query
Rejections == {"ERROR: Empty query", "ERROR: Payload too large"}

\* the positions of a handler inside process_query
InQueryEngine == {"query", "load", "hit", "stored"}

\* C20: a frame rejected as empty or too large never reaches process_query:
\* from the recv that rejects it to the close, no step of that handler is
\* inside process_query, and every such step leaves self.data (loaded or not,
\* and its content) and the file as they were.
C20_RejectedFrameSkipsQueryEngine ==
    /\ [][\A c \in ConnIds :
            (Steps(c) /\ response'[c] \in Rejections) =>
                /\ pc[c] \notin InQueryEngine /\ pc'[c] \notin InQueryEngine
                /\ cache' = cache /\ firstLoad' = firstLoad /\ file' = file]_vars
    /\ [](\A c \in ConnIds :
            response[c] \in Rejections =>
                /\ pc[c] \in {"send", "except", "close"}
                /\ ~ENABLED (Query(c) \/ Load(c) \/ Use(c)))

\* in Cached mode a blank frame has been answered ERROR: Empty query and the
\* readable dataset is still not loaded
C20_Witness ==
    \E c \in ConnIds :
        /\ ~reread_on_query /\ file.status = "ok" /\ ~cache.loaded
        /\ data[c] # <<>> /\ replies[c] = <<"ERROR: Empty query">>

\* the call returned at least one entry
Found(out) == out.raised = "" /\ out.results # <<>>

\* the outcome of the function named f on other inputs
MatchOf(f, lines, query) ==
    IF f = "process_query"
    THEN Returned(Results(lines, Strip(query)))
    ELSE Apply(f, lines, query)

\* a text without its trailing line terminator (\n or \r\n), if it has one
DropTerminator(s) ==
    IF s # <<>> /\ s[Len(s)] = "\n"
    THEN IF Len(s) > 1 /\ s[Len(s) - 1] = "\r"
         THEN SubSeq(s, 1, Len(s) - 2)
         ELSE SubSeq(s, 1, Len(s) - 1)
    ELSE s

\* the texts that differ from s by one trailing line terminator
TerminatorVariants(s) == {Append(s, "\n"), DropTerminator(s)}

\* the datasets that differ from lines by one trailing terminator of one line
LineVariants(lines) ==
    UNION {{[lines EXCEPT ![i] = v] : v \in TerminatorVariants(lines[i])} :
           i \in 1..Len(lines)}

\* C16: the verdict of the server's match and of naive_search is byte-exact
\* apart from the line terminator: an entry is found only if some dataset
\* line and the query are identical once the trailing terminator of each is
\* removed (so never when they differ in a leading or trailing blank).
C16_ByteExactApartFromTerminator ==
    (lib_func \in {"process_query", "naive"} /\ Found(lib_out)) =>
        \E i \in 1..Len(lib_data) :
            DropTerminator(lib_data[i]) = DropTerminator(lib_query)

\* C17 as stated: for the server's match and for naive_search alike, one
\* trailing terminator more or less on the query or on any dataset line
\* leaves the verdict as it is.
C17_TrimInvariance ==
    lib_func \in {"process_query", "naive"} =>
        /\ \A q \in TerminatorVariants(lib_query) :
              Found(MatchOf(lib_func, lib_data, q)) = Found(lib_out)
        /\ \A d \in LineVariants(lib_data) :
              Found(MatchOf(lib_func, d, lib_query)) = Found(lib_out)

\* C17 amended: one trailing terminator more or less on any dataset line
\* leaves the verdict of the server's match and of naive_search as it is; one
\* more or less on the query leaves the verdict of the server's match as it
\* is (naive_search compares the query as it is passed).
C17_TrimInvarianceOfLinesAndServerQuery ==
    /\ lib_func \in {"process_query", "naive"} =>
          \A d \in LineVariants(lib_data) :
              Found(MatchOf(lib_func, d, lib_query)) = Found(lib_out)
    /\ lib_func = "process_query" =>
          \A q \in TerminatorVariants(lib_query) :
              Found(MatchOf(lib_func, lib_data, q)) = Found(lib_out)

\* naive_search found a query in a dataset of terminated lines, so that
\* dropping the terminator of the matching line is one of the cases compared
C17_Witness ==
    /\ lib_func = "naive" /\ Found(lib_out)
    /\ \E i \in 1..Len(lib_data) :
          /\ Strip(lib_data[i]) = lib_query
          /\ DropTerminator(lib_data[i]) # lib_data[i]

\* some entry of the output equals the query
HasQuery(out) == \E k \in 1..Len(out.results) : out.results[k] = lib_query

\* C18: on a non-empty dataset and a non-empty query, each of binary_search,
\* kmp_search, boyer_moore_search, rabin_karp_search and z_algorithm_search
\* returns, and its output holds an entry equal to the query exactly when
\* the output of naive_search on the same inputs holds one.
C18_CrossAlgorithmEquivalence ==
    (lib_func \in LibAlgorithms \ {"naive"} /\ lib_data # <<>> /\ lib_query # <<>>) =>
        /\ lib_out.raised = ""
        /\ HasQuery(lib_out) <=> Found(naive_search(lib_data, lib_query))

\* C19: called with the empty query, a matching algorithm returns without
\* raising, every entry it returns is empty, and it returns an entry only
\* when some dataset line is empty after trimming.
C19_EmptyQueryMatchesEmptyLinesOnly ==
    (lib_func \in LibAlgorithms /\ lib_query = <<>>) =>
        /\ lib_out.raised = ""
        /\ \A k \in 1..Len(lib_out.results) : lib_out.results[k] = <<>>
        /\ lib_out.results # <<>> =>
              \E i \in 1..Len(lib_data) : Strip(lib_data[i]) = <<>>

\* C21: in Cached mode, whatever the interleaving of the handlers of the
\* first queries, the file is read into self.data at most once, self.data
\* once set is never replaced, and every query is matched against that one
\* stored sequence even if the file is modified meanwhile.
C21_CacheSetOnce ==
    [][~reread_on_query =>
          /\ cache.loaded => cache' = cache
          /\ \A c \in ConnIds :
                (pc[c] = "load" /\ pc'[c] = "stored") => ~firstLoad.loaded
          /\ \A c \in ConnIds :
                (pc[c] \in {"hit", "stored"} /\ pc'[c] = "send") =>
                    response'[c] = Verdict(firstLoad.lines, data[c])]_vars

\* the output holds the entry line
ReturnsLine(out, line) == \E k \in 1..Len(out.results) : out.results[k] = line

\* every entry of the output is a stripped line of the dataset
OnlyDatasetLines(out) ==
    \A k \in 1..Len(out.results) :
        \E i \in 1..Len(lib_data) : out.results[k] = Strip(lib_data[i])

\* C22: rabin_karp_search, on any dataset and a non-empty query, returns a
\* line exactly when that line, trimmed, contains the query, wherever the
\* line stands in the dataset and whatever precedes it.
C22_RabinKarpFindsContainingLines ==
    (lib_func = "rabin_karp" /\ lib_query # <<>>) =>
        /\ lib_out.raised = ""
        /\ OnlyDatasetLines(lib_out)
        /\ \A i \in 1..Len(lib_data) :
              ReturnsLine(lib_out, Strip(lib_data[i]))
                  <=> Contains(Strip(lib_data[i]), lib_query)

\* C23: boyer_moore_search, on any dataset and a non-empty query, returns
\* without IndexError, never reads line[i] at a negative index, and returns a
\* line exactly when that line, trimmed, contains the query.
C23_BoyerMooreFindsContainingLines ==
    (lib_func = "boyer_moore" /\ lib_query # <<>>) =>
        /\ lib_out.raised = ""
        /\ lib_out.low >= 0
        /\ OnlyDatasetLines(lib_out)
        /\ \A i \in 1..Len(lib_data) :
              ReturnsLine(lib_out, Strip(lib_data[i]))
                  <=> Contains(Strip(lib_data[i]), lib_query)

\* boyer_moore_search returned a line that holds a query of several
\* characters, but not at its start, so that the scan had to shift
C23_Witness ==
    /\ lib_func = "boyer_moore" /\ Len(lib_query) >= 2 /\ Len(lib_data) = 1
    /\ Len(Strip(lib_data[1])) >= Len(lib_query) + 2
    /\ Slice(Strip(lib_data[1]), 0, Len(lib_query)) # lib_query
    /\ ReturnsLine(lib_out, Strip(lib_data[1]))

KmpMeasure(e) == 2 * e[1] - e[2]

\* C25: on every dataset and non-empty query each of the six matching
\* functions comes to an end; from one iteration to the next the KMP scan
\* never moves i back and strictly increases 2i - j, the Boyer-Moore scan
\* strictly advances the end of its window, and binary_search strictly
\* narrows high - low.
C25_AlgorithmsTerminate ==
    (lib_func \in LibAlgorithms /\ lib_query # <<>>) =>
        /\ lib_out.raised # "(running)"
        /\ lib_func = "kmp" =>
              \A n \in 1..Len(lib_out.trace) :
                  LET t == lib_out.trace[n]
                  IN  \A k \in 1..(Len(t) - 1) :
                          /\ t[k + 1][1] >= t[k][1]
                          /\ KmpMeasure(t[k + 1]) > KmpMeasure(t[k])
        /\ lib_func = "boyer_moore" =>
              \A n \in 1..Len(lib_out.trace) :
                  LET t == lib_out.trace[n]
                  IN  \A k \in 1..(Len(t) - 1) : t[k + 1] > t[k]
        /\ lib_func = "binary" =>
              LET t == lib_out.trace
              IN  \A k \in 1..(Len(t) - 1) :
                      t[k + 1][2] - t[k + 1][1] < t[k][2] - t[k][1]

\* a KMP scan in which, after a partial match, j fell back with i in place
\* and the scan still ran to the end of the line
C25_Witness ==
    /\ lib_func = "kmp" /\ lib_query # <<>> /\ lib_out.raised = ""
    /\ \E n \in 1..Len(lib_out.trace) :
          LET t == lib_out.trace[n]
          IN  \E k \in 1..(Len(t) - 1) :
                  t[k + 1][1] = t[k][1] /\ t[k + 1][2] < t[k][2]

C27_FailedLoadNotCached ==
    /\ [][~reread_on_query =>
            /\ \A c \in ConnIds :
                  (pc[c] = "load" /\ Steps(c) /\ ReadFails) =>
                      /\ cache' = cache
                      /\ response'[c] = ReadFailure
            /\ cache' # cache =>
                  /\ file.status = "ok"
                  /\ cache' = [loaded |-> TRUE, lines |-> file.lines]]_vars
    /\ [](~cache.loaded => cache.lines = <<>> /\ ~firstLoad.loaded)
    /\ [](\A c \in ConnIds :
            (~reread_on_query /\ pc[c] = "query" /\ ~cache.loaded) =>
                ENABLED (Query(c) /\ pc'[c] = "load"))

\* the first query met a missing file and was told NOT FOUND; the file was
\* then created, and a connection accepted after that has just loaded it,
\* for the first time, with the line the first query had asked for
C27_Witness ==
    \E c \in ConnIds : \E d \in ConnIds \ {c} :
        /\ ~reread_on_query
        /\ Strip(data[c]) = <<"a">> /\ replies[c] = <<"STRING NOT FOUND">>
        /\ lastChange.op = "create" /\ ~stale[d]
        /\ pc[d] = "stored" /\ Strip(data[d]) = <<"a">>
        /\ cache = firstLoad /\ LineEquals(cache.lines, data[d])
====
